---- MODULE Spec2Model ----
(***************************************************************************)
(* Model of imap-proto's primitive parsers (src/imap-proto/src/parser/     *)
(* core.rs).  Every parser is a pure function of a byte slice; the model   *)
(* writes each one as an operator over a sequence of bytes (0..255) and    *)
(* returns the three-way outcome of nom's IResult:                         *)
(*   Success(value, rest) | Incomplete(needed) | Malformed(rest, code).    *)
(* The nom combinators are the streaming ones the file imports.            *)
(***************************************************************************)
EXTENDS Integers, Sequences, FiniteSets

VARIABLES input, op, result, fed

vars == <<input, op, result, fed>>

\* ----- bytes named by the grammar -----
NUL == 0
LF == 10
CR == 13
SP == 32
DQUOTE == 34
PERCENT == 37
LPAREN == 40
RPAREN == 41
STAR == 42
BACKSLASH == 92
RBRACKET == 93
LBRACE == 123
RBRACE == 125

\* ----- bounds of the model -----
MaxFeed == 2

\* ----- outcomes (nom::IResult) -----
Ok(v, rest) == [kind |-> "Success", value |-> v, rest |-> rest, needed |-> <<>>, code |-> ""]
Incomplete(n) == [kind |-> "Incomplete", value |-> <<>>, rest |-> <<>>, needed |-> n, code |-> ""]
Error(at, code) == [kind |-> "Malformed", value |-> <<>>, rest |-> at, needed |-> <<>>, code |-> code]

\* no parser has been called yet
NotCalled == [kind |-> "NotCalled", value |-> <<>>, rest |-> <<>>, needed |-> <<>>, code |-> ""]

\* Option<T>
None == [some |-> FALSE, v |-> <<>>]
Some(v) == [some |-> TRUE, v |-> v]

\* ----- unsigned integers as little-endian 16-bit limbs -----
\* (u32 = 2 limbs, u64/usize = 4 limbs; the values exceed TLC's 32-bit integers)
Limb == 2^16
Zero(w) == [k \in 1..w |-> 0]
Small(n, w) == [k \in 1..w |-> IF k = 1 THEN n ELSE 0]
\* Needed::Size(n) for a small n
Size(n) == Small(n, 4)
\* ToUsize for u32
to_usize(v) == v \o <<0, 0>>
\* a usize below 2^31, the range of the lengths a buffer of the model can have
IsLength(v) == v[2] < 2^15 /\ \A k \in 3..Len(v) : v[k] = 0
\* its value
AsLength(v) == v[2] * Limb + v[1]

Tail_from(i, k) == SubSeq(i, k, Len(i))
Head_to(i, k) == SubSeq(i, 1, k)

\* ----- nom: InputTakeAtPosition for &[u8] (streaming) -----
\* (0..len).find(predicate): the first of the indices `hits` whose byte ends the
\* run, 0 for none
position(hits) == IF hits = {} THEN 0 ELSE CHOOSE k \in hits : \A j \in hits : k <= j

split_at_position(i, hits) ==
  IF position(hits) = 0 THEN Incomplete(Size(1))
  ELSE Ok(Head_to(i, position(hits) - 1), Tail_from(i, position(hits)))

split_at_position1(i, hits, code) ==
  IF position(hits) = 0 THEN Incomplete(Size(1))
  ELSE IF position(hits) = 1 THEN Error(i, code)
  ELSE Ok(Head_to(i, position(hits) - 1), Tail_from(i, position(hits)))

is_dec_digit(c) == c \in 48..57
NotDigit(i) == {k \in 1..Len(i) : ~is_dec_digit(i[k])}

\* nom::character::streaming::digit1
digit1(i) == split_at_position1(i, NotDigit(i), "Digit")

\* nom::bytes::streaming::tag: Compare for &[u8]
tag(t, i) ==
  IF \E k \in 1..Len(t) : k <= Len(i) /\ i[k] # t[k] THEN Error(i, "Tag")
  ELSE IF Len(i) >= Len(t) THEN Ok(Head_to(i, Len(t)), Tail_from(i, Len(t) + 1))
  ELSE Incomplete(Size(Len(t)))

\* ASCII case folding used by compare_no_case
Lower(c) == IF c \in 65..90 THEN c + 32 ELSE c

\* nom::bytes::streaming::tag_no_case
tag_no_case(t, i) ==
  IF \E k \in 1..Len(t) : k <= Len(i) /\ Lower(i[k]) # Lower(t[k]) THEN Error(i, "Tag")
  ELSE IF Len(i) < Len(t) THEN Incomplete(Size(Len(t)))
  ELSE Ok(Head_to(i, Len(t)), Tail_from(i, Len(t) + 1))

\* nom::character::streaming::char
char(c, i) ==
  IF Len(i) = 0 THEN Incomplete(Size(1))
  ELSE IF i[1] # c THEN Error(i, "Char")
  ELSE Ok(c, Tail_from(i, 2))

\* nom::bytes::streaming::take: count is a usize in limbs; slice_index is
\* len >= count, and a count of 2^31 or more exceeds every buffer of the model
take(count, i) ==
  IF IsLength(count) /\ Len(i) >= AsLength(count)
  THEN Ok(Head_to(i, AsLength(count)), Tail_from(i, AsLength(count) + 1))
  ELSE Incomplete(count)

\* nom::branch::alt over two alternatives, given the first's outcome
alt(first, second) == IF first.kind = "Malformed" THEN second ELSE first

\* ----- u32::from_str / u64::from_str on a run of ASCII digits -----
RECURSIVE MulAdd(_, _, _, _)
\* v * m + carry in limbs, one limb longer than v: the last limb is the overflow
MulAdd(v, k, m, carry) ==
  IF k > Len(v) THEN <<carry>>
  ELSE <<(v[k] * m + carry) % Limb>> \o MulAdd(v, k + 1, m, (v[k] * m + carry) \div Limb)

checked(r) == IF r[Len(r)] # 0 THEN None ELSE Some(Head_to(r, Len(r) - 1))
checked_mul(v, m) == checked(MulAdd(v, 1, m, 0))
checked_add(v, d) == checked(MulAdd(v, 1, 1, d))

\* result.checked_mul(10)?.checked_add(digit)?
push_digit(acc, d) ==
  IF ~checked_mul(acc, 10).some THEN None ELSE checked_add(checked_mul(acc, 10).v, d)

RECURSIVE from_str_radix(_, _, _)
\* acc is the Option accumulated over digits[1..k-1]
from_str_radix(digits, k, acc) ==
  IF ~acc.some \/ k > Len(digits) THEN acc
  ELSE from_str_radix(digits, k + 1, push_digit(acc.v, digits[k] - 48))

from_str(digits, w) ==
  IF Len(digits) = 0 THEN None ELSE from_str_radix(digits, 1, Some(Zero(w)))

\* ----- number -----
to_number(v, rest) == IF v.some THEN Ok(v.v, rest) ELSE Error(rest, "ParseTo")

parse_digits(d, w) == IF d.kind # "Success" THEN d ELSE to_number(from_str(d.value, w), d.rest)

\* mutants of number: parsed wider and narrowed by truncation; digit run ended by the buffer's end
narrow(r) == IF r.kind = "Success" THEN Ok(Head_to(r.value, 2), r.rest) ELSE r
number_truncating(i) == narrow(parse_digits(digit1(i), 4))
number_complete(i) ==
  IF Len(i) > 0 /\ \A k \in 1..Len(i) : is_dec_digit(i[k])
  THEN to_number(from_str(i, 2), <<>>)
  ELSE parse_digits(digit1(i), 2)

number(i) == parse_digits(digit1(i), 2)

number_64(i) == parse_digits(digit1(i), 4)

\* ----- std::str::from_utf8: is the byte run well-formed UTF-8 -----
IsCont(i, k, lo, hi) == k <= Len(i) /\ i[k] >= lo /\ i[k] <= hi

RECURSIVE utf8_valid(_, _)
utf8_valid(i, k) ==
  IF k > Len(i) THEN TRUE
  ELSE LET b == i[k] IN
    IF b < 128 THEN utf8_valid(i, k + 1)
    ELSE IF b \in 194..223 THEN IsCont(i, k + 1, 128, 191) /\ utf8_valid(i, k + 2)
    ELSE IF b \in 224..239 THEN
      /\ IsCont(i, k + 1, IF b = 224 THEN 160 ELSE 128, IF b = 237 THEN 159 ELSE 191)
      /\ IsCont(i, k + 2, 128, 191)
      /\ utf8_valid(i, k + 3)
    ELSE IF b \in 240..244 THEN
      /\ IsCont(i, k + 1, IF b = 240 THEN 144 ELSE 128, IF b = 244 THEN 143 ELSE 191)
      /\ IsCont(i, k + 2, 128, 191)
      /\ IsCont(i, k + 3, 128, 191)
      /\ utf8_valid(i, k + 4)
    ELSE FALSE

from_utf8(bytes) == IF utf8_valid(bytes, 1) THEN Some(bytes) ELSE None

\* nom::combinator::map_res(parser, from_utf8), given the parser's outcome on i
map_res_utf8(r, i) ==
  IF r.kind # "Success" THEN r
  ELSE IF from_utf8(r.value).some THEN Ok(r.value, r.rest)
  ELSE Error(i, "MapRes")

\* ----- character classes -----
is_char8(c) == c # NUL
is_char(c) == c \in 1..127
is_text_char(c) == is_char(c) /\ c # CR /\ c # LF
is_list_wildcards(c) == c = PERCENT \/ c = STAR
is_quoted_specials(c) == c = DQUOTE \/ c = BACKSLASH
is_resp_specials(c) == c = RBRACKET
is_atom_specials(c) ==
  \/ c = LPAREN
  \/ c = RPAREN
  \/ c = LBRACE
  \/ c = SP
  \/ c < 32
  \/ is_list_wildcards(c)
  \/ is_quoted_specials(c)
  \/ is_resp_specials(c)
is_atom_char(c) == is_char(c) /\ ~is_atom_specials(c)
is_astring_char(c) == is_atom_char(c) \/ is_resp_specials(c)

NotTextChar(i) == {k \in 1..Len(i) : ~is_text_char(i[k])}
NotAtomChar(i) == {k \in 1..Len(i) : ~is_atom_char(i[k])}
NotAstringChar(i) == {k \in 1..Len(i) : ~is_astring_char(i[k])}

\* nom::bytes::streaming::take_while / take_while1
take_while_text(i) == split_at_position(i, NotTextChar(i))
take_while1_atom(i) == split_at_position1(i, NotAtomChar(i), "TakeWhile1")
take_while1_astring(i) == split_at_position1(i, NotAstringChar(i), "TakeWhile1")

\* ----- quoted -----
RECURSIVE quoted_len(_, _, _)
\* the scan loop of quoted_data: k is the next index, the result is len
quoted_len(i, k, escape) ==
  IF k > Len(i) THEN k - 1
  ELSE IF i[k] = DQUOTE /\ ~escape THEN k - 1
  ELSE quoted_len(i, k + 1, i[k] = BACKSLASH /\ ~escape)

slice_at(i, len) == Ok(Head_to(i, len), Tail_from(i, len + 1))

\* mutant of quoted_data: the scan ignores the escape state
quoted_data_unescaped(i) ==
  slice_at(i, IF \E k \in 1..Len(i) : i[k] = DQUOTE
              THEN (CHOOSE k \in 1..Len(i) : i[k] = DQUOTE /\ \A j \in 1..(k - 1) : i[j] # DQUOTE) - 1
              ELSE Len(i))

quoted_data(i) == slice_at(i, quoted_len(i, 1, FALSE))

\* delimited(char('"'), quoted_data, char('"')), step by step
quoted_close(data, close) == IF close.kind # "Success" THEN close ELSE Ok(data.value, close.rest)
quoted_body(data) == quoted_close(data, char(DQUOTE, data.rest))
quoted_open(open) == IF open.kind # "Success" THEN open ELSE quoted_body(quoted_data(open.rest))

quoted(i) == quoted_open(char(DQUOTE, i))

\* ----- literal -----
\* mutant of literal_verify: the payload is scanned as text
literal_verify_text(t) ==
  IF t.kind # "Success" THEN t
  ELSE IF \E k \in 1..Len(t.value) : ~is_text_char(t.value[k]) THEN Error(t.rest, "Verify")
  ELSE Ok(t.value, t.rest)

\* the payload check after take(count)
literal_verify(t) ==
  IF t.kind # "Success" THEN t
  ELSE IF \E k \in 1..Len(t.value) : ~is_char8(t.value[k]) THEN Error(t.rest, "Verify")
  ELSE Ok(t.value, t.rest)

\* tuple((tag(b"{"), number, tag(b"}"), tag("\r\n"))), step by step
\* mutant of literal_take: takes what is there when fewer than count bytes are
literal_take_truncating(count, c) ==
  IF c.kind # "Success" THEN c
  ELSE IF take(to_usize(count), c.rest).kind = "Incomplete" THEN literal_verify(Ok(c.rest, <<>>))
  ELSE literal_verify(take(to_usize(count), c.rest))

literal_take(count, c) ==
  IF c.kind # "Success" THEN c ELSE literal_verify(take(to_usize(count), c.rest))
literal_crlf(count, b) ==
  IF b.kind # "Success" THEN b ELSE literal_take(count, tag(<<CR, LF>>, b.rest))
literal_rbrace(n) ==
  IF n.kind # "Success" THEN n ELSE literal_crlf(n.value, tag(<<RBRACE>>, n.rest))
literal_count(a) ==
  IF a.kind # "Success" THEN a ELSE literal_rbrace(number(a.rest))

literal(i) == literal_count(tag(<<LBRACE>>, i))

\* ----- string, astring, atom, nstring, nil, text -----
string(i) == alt(quoted(i), literal(i))

\* mutant of astring: the bare run is a run of atom-chars
astring_atom_run(i) == alt(take_while1_atom(i), string(i))

astring(i) == alt(take_while1_astring(i), string(i))

\* mutant of atom: the run may be empty
atom_maybe_empty(i) == map_res_utf8(split_at_position(i, NotAtomChar(i)), i)

atom(i) == map_res_utf8(take_while1_atom(i), i)

nil(i) == tag_no_case(<<78, 73, 76>>, i)

\* map(p, f): f applied to the value of a success
map_none(r) == IF r.kind = "Success" THEN Ok(None, r.rest) ELSE r
map_some(r) == IF r.kind = "Success" THEN Ok(Some(r.value), r.rest) ELSE r

\* mutant of nstring: string is tried whenever nil did not succeed
nstring_fallthrough(i) ==
  IF nil(i).kind = "Success" THEN map_none(nil(i)) ELSE map_some(string(i))

nstring(i) == alt(map_none(nil(i)), map_some(string(i)))

\* mutant of text: at least one text-char is required
text_nonempty(i) == map_res_utf8(split_at_position1(i, NotTextChar(i), "TakeWhile1"), i)

text(i) == map_res_utf8(take_while_text(i), i)

\* ----- opt_opt -----
\* mutant of opt_opt: every outcome but a success becomes an absent value
opt_opt_swallowing(r, i) == IF r.kind = "Success" THEN Ok(r.value, r.rest) ELSE Ok(None, i)

\* r is the outcome of the wrapped parser f on i
opt_opt(r, i) ==
  IF r.kind = "Success" THEN Ok(r.value, r.rest)
  ELSE IF r.kind = "Malformed" THEN Ok(None, i)
  ELSE r

\* ----- the parsers by name -----
Parsers == {"number", "number_64", "quoted", "quoted_data", "literal", "string",
            "astring", "atom", "nil", "nstring", "text", "opt_opt"}

Apply(p, i) ==
  CASE p = "number" -> number(i)
    [] p = "number_64" -> number_64(i)
    [] p = "quoted" -> quoted(i)
    [] p = "quoted_data" -> quoted_data(i)
    [] p = "literal" -> literal(i)
    [] p = "string" -> string(i)
    [] p = "astring" -> astring(i)
    [] p = "atom" -> atom(i)
    [] p = "nil" -> nil(i)
    [] p = "nstring" -> nstring(i)
    [] p = "text" -> text(i)
    [] p = "opt_opt" -> opt_opt(nstring(i), i)

\* ----- inputs -----
\* bytes the transport may deliver next
\* NUL LF CR SP " 1 9 \ ] l { } 0x80
Alphabet == {NUL, LF, CR, SP, DQUOTE, 49, 57, BACKSLASH, RBRACKET, 108, LBRACE, RBRACE, 128}

\* buffers a parse starts from
Seeds == {
  <<>>,
  <<LBRACE, 48, RBRACE, CR, LF>>,                        \* {0}CRLF
  <<LBRACE, 49, RBRACE, CR, LF>>,                        \* {1}CRLF
  <<LBRACE, 50, RBRACE, CR, LF>>,                        \* {2}CRLF
  <<LBRACE, 51, RBRACE, CR, LF, 88, 89, 90>>,            \* {3}CRLF XYZ
  <<LBRACE, 51, RBRACE, CR, LF, 88, 128>>,               \* {3}CRLF X 0x80
  <<LBRACE, 49, 48, RBRACE, CR, LF, 97, 98, 99, 100, 101, 102, 103, 104>>, \* {10}CRLF abcdefgh
  <<LBRACE, 48, 50, RBRACE, CR>>,                        \* {02}CR
  <<LBRACE, 50, RBRACE>>,                                \* {2}
  <<LBRACE, 50>>,                                        \* {2
  <<LBRACE, 52, 50, 57, 52, 57, 54, 55, 50, 57, 53, RBRACE, CR, LF>>, \* {4294967295}CRLF
  <<LBRACE, 52, 50, 57, 52, 57, 54, 55, 50, 57, 54, RBRACE>>, \* {4294967296}
  <<52, 50, 57, 52, 57, 54, 55, 50, 57>>,                \* 429496729
  <<52, 50, 57, 52, 57, 54, 55, 50, 57, 53>>,            \* 4294967295
  <<52, 50, 57, 52, 57, 54, 55, 50, 57, 54>>,            \* 4294967296
  <<52, 50, 57, 52, 57, 54, 55, 50, 57, 55>>,            \* 4294967297
  <<48, 48, 52, 50, 57, 52, 57, 54, 55, 50, 57, 53>>,    \* 004294967295
  <<49, 56, 52, 52, 54, 55, 52, 52, 48, 55, 51, 55, 48, 57, 53, 53, 49, 54, 49, 53>>, \* 2^64-1
  <<49, 56, 52, 52, 54, 55, 52, 52, 48, 55, 51, 55, 48, 57, 53, 53, 49, 54, 49, 54>>, \* 2^64
  <<DQUOTE, 97, BACKSLASH, DQUOTE, 98>>,                 \* "a\"b
  <<DQUOTE, 78, 73, 76>>,                                \* "NIL
  <<78, 73>>,                                            \* NI
  <<110, 105, 108>>,                                     \* nil
  <<116, 101, 120, 116>>,                                \* text
  <<116, RBRACKET>>,                                     \* t]
  <<128>>                                                \* 0x80
}

Init ==
  /\ input \in Seeds
  /\ op = "init"
  /\ result = NotCalled
  /\ fed = 0

\* one call of each parser on the buffer
Start(p) == op = "init" /\ op' = p /\ UNCHANGED <<input, fed>>

Number == Start("number") /\ result' = number(input)

Number64 == Start("number_64") /\ result' = number_64(input)

Quoted == Start("quoted") /\ result' = quoted(input)

QuotedData == Start("quoted_data") /\ result' = quoted_data(input)

Literal == Start("literal") /\ result' = literal(input)

String == Start("string") /\ result' = string(input)

Astring == Start("astring") /\ result' = astring(input)

Atom == Start("atom") /\ result' = atom(input)

Nil == Start("nil") /\ result' = nil(input)

Nstring == Start("nstring") /\ result' = nstring(input)

Text == Start("text") /\ result' = text(input)

\* opt_opt wrapped around nstring, the parser of an optional value in this file
OptOpt == Start("opt_opt") /\ result' = opt_opt(nstring(input), input)

\* the caller buffers one more byte and retries the same parser from the same offset
Feed ==
  /\ op # "init"
  /\ fed < MaxFeed
  /\ \E x \in Alphabet :
       /\ input' = Append(input, x)
       /\ result' = Apply(op, input')
  /\ fed' = fed + 1
  /\ UNCHANGED op

Next ==
  \/ Number
  \/ Number64
  \/ Quoted
  \/ QuotedData
  \/ Literal
  \/ String
  \/ Astring
  \/ Atom
  \/ Nil
  \/ Nstring
  \/ Text
  \/ OptOpt
  \/ Feed

Spec == Init /\ [][Next]_vars
\* ======================= properties =======================
\* largest literal count the properties enumerate
MaxCount == 12

StartsWith(i, p) == Len(i) >= Len(p) /\ Head_to(i, Len(p)) = p

RECURSIVE Decimal(_)
\* the decimal digits of n, most significant first, no leading zero
Decimal(n) == IF n < 10 THEN <<48 + n>> ELSE Append(Decimal(n \div 10), 48 + (n % 10))

\* "{" decimal(n) "}" CR LF
Header(n) == <<LBRACE>> \o Decimal(n) \o <<RBRACE, CR, LF>>

\* bytes available after the header
After(i, n) == Tail_from(i, Len(Header(n)) + 1)

\* length of the maximal run of digits at the start of i
DigitRun(i) ==
  CHOOSE k \in 0..Len(i) :
    /\ \A j \in 1..k : i[j] \in 48..57
    /\ k = Len(i) \/ i[k + 1] \notin 48..57

RECURSIVE StripZeros(_)
StripZeros(d) == IF Len(d) > 1 /\ d[1] = 48 THEN StripZeros(Tail(d)) ELSE d

\* 4294967296 = 2^32, as digits
TwoTo32 == <<52, 50, 57, 52, 57, 54, 55, 50, 57, 54>>

\* a and b digit runs of equal length: a >= b as numbers
DigitsGE(a, b) ==
  \/ a = b
  \/ \E k \in 1..Len(a) : a[k] > b[k] /\ \A j \in 1..(k - 1) : a[j] = b[j]

\* the run encodes a value >= 2^32
TooBig(d) ==
  \/ Len(StripZeros(d)) > Len(TwoTo32)
  \/ Len(StripZeros(d)) = Len(TwoTo32) /\ DigitsGE(StripZeros(d), TwoTo32)

RECURSIVE ToDecimal(_)
\* decimal digits of a two-limb value by long division, empty for zero
ToDecimal(v) ==
  IF v[1] = 0 /\ v[2] = 0 THEN <<>>
  ELSE Append(ToDecimal(<<((v[2] % 10) * Limb + v[1]) \div 10, v[2] \div 10>>),
              48 + (((v[2] % 10) * Limb + v[1]) % 10))

DecimalOfU32(v) == IF ToDecimal(v) = <<>> THEN <<48>> ELSE ToDecimal(v)

\* C1: literal round trip: for a count n, n NUL-free payload bytes and any tail,
\* literal and string on "{" n "}" CRLF payload tail succeed with exactly the
\* payload and leave exactly the tail; the payload is not scanned for content.
C1_LiteralRoundTrip ==
  op \in {"literal", "string"} =>
    \A n \in 0..MaxCount :
      (/\ StartsWith(input, Header(n))
       /\ Len(After(input, n)) >= n
       /\ \A k \in 1..n : After(input, n)[k] # NUL)
      => result = Ok(Head_to(After(input, n), n), Tail_from(After(input, n), n + 1))

C1_Witness ==
  /\ op = "string"
  /\ result.kind = "Success"
  /\ StartsWith(input, Header(1))
  /\ result.value \in {<<CR>>, <<LF>>, <<DQUOTE>>, <<LBRACE>>}
  /\ Len(result.rest) = 1
  /\ result.rest[1] \in {CR, LF, DQUOTE, LBRACE}

\* C2 as stated: with a well-formed header and k < count payload bytes available,
\* literal returns Incomplete whose hint is the deficit count - k.
C2_DeficitHint ==
  op = "literal" =>
    \A n \in 1..MaxCount :
      (StartsWith(input, Header(n)) /\ Len(After(input, n)) < n)
      => result = Incomplete(Size(n - Len(After(input, n))))

\* C2 amended: with a well-formed header and k < count payload bytes available,
\* literal returns Incomplete whose hint is the declared count itself, whatever k
\* is; it never returns Success with a truncated payload.
C2_CountHint ==
  op = "literal" =>
    \A n \in 1..MaxCount :
      (StartsWith(input, Header(n)) /\ Len(After(input, n)) < n)
      => result = Incomplete(Size(n))

C2_Witness ==
  /\ op = "literal"
  /\ StartsWith(input, Header(2))
  /\ Len(After(input, 2)) = 1
  /\ result.kind = "Incomplete"

\* C3 as stated: number applied to a digit run d encoding v >= 2^32 is Malformed,
\* and a Success always carries the decimal value of the consumed run.
C3_OverflowMalformed ==
  op = "number" =>
    /\ (DigitRun(input) > 0 /\ TooBig(Head_to(input, DigitRun(input))))
         => result.kind = "Malformed"
    /\ result.kind = "Success"
         => DecimalOfU32(result.value) = StripZeros(Head_to(input, Len(input) - Len(result.rest)))

\* C3 amended: number applied to a digit run d encoding v >= 2^32 that is followed
\* by a byte that is not a digit is Malformed; applied to d alone (the run reaches
\* the end of the buffer) it is Incomplete; a Success always carries the decimal
\* value of the consumed run (no wrap-around, no truncation).
C3_OverflowTerminated ==
  op = "number" =>
    /\ (DigitRun(input) > 0 /\ TooBig(Head_to(input, DigitRun(input))))
         => result.kind = (IF DigitRun(input) < Len(input) THEN "Malformed" ELSE "Incomplete")
    /\ result.kind = "Success"
         => /\ Len(input) - Len(result.rest) = DigitRun(input)
            /\ DecimalOfU32(result.value) = StripZeros(Head_to(input, DigitRun(input)))

C3_Witness ==
  /\ op = "number"
  /\ StartsWith(input, TwoTo32)
  /\ DigitRun(input) = Len(TwoTo32)
  /\ result.kind = "Malformed"

\* C4 as stated: text on the empty input succeeds with an empty value, and text
\* never fails because its run of text-chars is empty.
C4_EmptyInputSucceeds ==
  op = "text" =>
    /\ Len(input) = 0 => result = Ok(<<>>, <<>>)
    /\ (Len(input) > 0 /\ ~(input[1] \in 1..127 /\ input[1] \notin {CR, LF}))
         => result = Ok(<<>>, input)

\* C4 amended: text on an input whose first byte is not a text-char succeeds with
\* an empty value and the input untouched (a run of length zero is no failure,
\* and text is never Malformed); on the empty input it is Incomplete.
C4_EmptyRunSucceeds ==
  op = "text" =>
    /\ Len(input) = 0 => result.kind = "Incomplete"
    /\ (Len(input) > 0 /\ ~(input[1] \in 1..127 /\ input[1] \notin {CR, LF}))
         => result = Ok(<<>>, input)
    /\ result.kind # "Malformed"

C4_Witness ==
  /\ op = "text"
  /\ Len(input) > 0
  /\ input[1] = CR
  /\ result = Ok(<<>>, input)

\* bytes an atom may hold: 0x21..0x7E but ( ) { % * " \ ]
AtomBytes == (33..126) \ {LPAREN, RPAREN, LBRACE, PERCENT, STAR, DQUOTE, BACKSLASH, RBRACKET}

\* C5 as stated: atom on the empty input, or on an input whose first byte is not
\* an atom-char, is Malformed.
C5_EmptyMalformed ==
  (op = "atom" /\ (Len(input) = 0 \/ input[1] \notin AtomBytes)) => result.kind = "Malformed"

\* C5 amended: atom on an input whose first byte is not an atom-char is Malformed
\* (never Success with an empty match); on the empty input it is Incomplete.
C5_EmptyRunMalformed ==
  op = "atom" =>
    /\ (Len(input) > 0 /\ input[1] \notin AtomBytes) => result.kind = "Malformed"
    /\ Len(input) = 0 => result.kind = "Incomplete"
    /\ result.kind = "Success" => Len(result.value) > 0

C5_Witness ==
  /\ op = "atom"
  /\ Len(input) > 0
  /\ input[1] = SP
  /\ result.kind = "Malformed"

\* length of the maximal run of astring-chars at the start of i
AstringRun(i) ==
  CHOOSE k \in 0..Len(i) :
    /\ \A j \in 1..k : i[j] \in AtomBytes \cup {RBRACKET}
    /\ k = Len(i) \/ i[k + 1] \notin AtomBytes \cup {RBRACKET}

\* C6: on a nonempty run r of astring-chars followed by a byte that is none,
\* astring succeeds with value r and leaves the input from that byte on; the
\* outcome is the string branch's only when the bare run has no characters.
C6_AstringBareRun ==
  op = "astring" =>
    /\ (AstringRun(input) > 0 /\ AstringRun(input) < Len(input))
         => result = Ok(Head_to(input, AstringRun(input)), Tail_from(input, AstringRun(input) + 1))
    /\ (AstringRun(input) > 0 /\ AstringRun(input) = Len(input)) => result.kind = "Incomplete"
    /\ (Len(input) > 0 /\ AstringRun(input) = 0) => result = string(input)

C6_Witness ==
  /\ op = "astring"
  /\ result.kind = "Success"
  /\ RBRACKET \in {result.value[k] : k \in 1..Len(result.value)}
  /\ Len(result.rest) > 0
  /\ result.rest[1] = SP

\* C7: in string, astring and nstring the later alternative decides the outcome
\* only when the earlier one is Malformed; an Incomplete (or Success) of the
\* earlier alternative is the outcome of the union.
C7_AltPropagatesIncomplete ==
  /\ op = "string" =>
       result = (IF quoted(input).kind = "Malformed" THEN literal(input) ELSE quoted(input))
  /\ op = "astring" =>
       result = (IF take_while1_astring(input).kind = "Malformed"
                   THEN string(input) ELSE take_while1_astring(input))
  /\ op = "nstring" =>
       /\ nil(input).kind = "Incomplete" => result = nil(input)
       /\ nil(input).kind = "Success" => result = Ok(None, nil(input).rest)
       /\ nil(input).kind = "Malformed" =>
            /\ result.kind = string(input).kind
            /\ result.kind = "Success" => result = Ok(Some(string(input).value), string(input).rest)

C7_Witness ==
  /\ op = "nstring"
  /\ Len(input) > 0
  /\ nil(input).kind = "Incomplete"
  /\ string(input).kind = "Malformed"
  /\ result.kind = "Incomplete"

\* the number of backslashes immediately before position k, not before position 2
BackslashesBefore(i, k) ==
  CHOOSE n \in 0..(k - 2) :
    /\ \A j \in (k - n)..(k - 1) : i[j] = BACKSLASH
    /\ k - n = 2 \/ i[k - n - 1] # BACKSLASH

\* an opening quote and no unescaped closing quote among the available bytes
QuoteOpen(i) ==
  /\ Len(i) > 0
  /\ i[1] = DQUOTE
  /\ \A k \in 2..Len(i) : i[k] = DQUOTE => BackslashesBefore(i, k) % 2 = 1

\* a literal header "{" count "}" CRLF cut short
HeaderCut(i) ==
  \/ Len(i) = 0
  \/ /\ i[1] = LBRACE
     /\ LET d == DigitRun(Tail(i)) IN
        \/ Len(i) = 1 + d
        \/ /\ d > 0
           /\ ~TooBig(SubSeq(i, 2, 1 + d))
           /\ Tail_from(i, 2 + d) \in {<<RBRACE>>, <<RBRACE, CR>>}

\* C8: a scan that reaches the end of the available input before what the
\* grammar still requires is Incomplete: number and number_64 on a digit run up
\* to the end, quoted with no unescaped closing quote, literal with the header
\* or its CRLF cut short.
C8_EndOfInputIncomplete ==
  /\ (op \in {"number", "number_64"} /\ DigitRun(input) = Len(input))
       => result.kind = "Incomplete"
  /\ (op = "quoted" /\ QuoteOpen(input)) => result.kind = "Incomplete"
  /\ (op = "literal" /\ HeaderCut(input)) => result.kind = "Incomplete"

C8_Witness ==
  /\ op = "quoted"
  /\ QuoteOpen(input)
  /\ Len(input) > 2
  /\ input[Len(input)] = DQUOTE
  /\ result.kind = "Incomplete"

\* C9: opt_opt(f) on i: a Malformed of f becomes Success with an absent value and
\* remaining input i; an Incomplete of f is returned unchanged; a Success of f is
\* returned unchanged (f is nstring).
C9_OptOpt ==
  op = "opt_opt" =>
    /\ nstring(input).kind = "Malformed" => result = Ok(None, input)
    /\ nstring(input).kind # "Malformed" => result = nstring(input)

C9_Witness ==
  /\ op = "opt_opt"
  /\ Len(input) > 0
  /\ nstring(input).kind = "Malformed"
  /\ result = Ok(None, input)

StreamParsers == {"number", "quoted", "literal", "string", "astring", "nstring", "atom", "text"}

\* C10: when a byte is appended and the same parser retried from the same
\* offset, a Success stays the same Success with the byte added to the remaining
\* input and a Malformed stays Malformed: only Incomplete can change.
C10_StableUnderRetry ==
  [][(op \in StreamParsers /\ op' = op /\ Len(input') = Len(input) + 1) =>
       /\ result.kind = "Success" =>
            result' = Ok(result.value, Append(result.rest, input'[Len(input')]))
       /\ result.kind = "Malformed" => result'.kind = "Malformed"]_vars

C10_Witness ==
  /\ op = "number"
  /\ fed = 2
  /\ result.kind = "Success"
  /\ Len(result.rest) = 2
  /\ result.rest[2] = 49
====
